---- MODULE Spec2Model ----
(***************************************************************************)
(* A model of qngng (src/qngng/qngng.py): the NameGenerator (pool building *)
(* and random_full_name), format_name with its helpers, and the wheel      *)
(* loop _spin_wheel.                                                       *)
(*                                                                         *)
(* A Python str is a sequence of one-character strings.  Python's None is  *)
(* None where a str is expected and NoGender where a Gender is expected.   *)
(***************************************************************************)
EXTENDS Integers, Sequences, FiniteSets, TLC

VARIABLES
    files,             \* the packaged resources cats/<key>.json
    categories,        \* the categories argument of NameGenerator.__init__
    surname_count,     \* NameGenerator._surname_count
    with_middle_name,  \* NameGenerator._with_middle_name
    gender,            \* NameGenerator._gender
    cat_objs,          \* NameGenerator._cat_objs
    name_objs,         \* NameGenerator._name_objs
    surname_objs,      \* NameGenerator._surname_objs
    pc,                \* where the program is
    rand_cat,          \* random_full_name: the category random.choice returned
    rand_name_idx,     \* _random_std_full_name: the positions random.sample drew in _name_objs
    rand_surname_idx,  \* _random_std_full_name: the positions random.sample drew in _surname_objs
    ret,               \* what the last call returned or raised
    fullname,          \* format_name: the fullname argument
    fmt,               \* format_name: the fmt argument
    with_middle_initial, \* format_name: the with_middle_initial argument
    out,               \* what format_name / middle_initial returned or raised
    x,                 \* _spin_wheel: x, in hundredths
    prev_name_len,     \* _spin_wheel: prev_name_len
    name,              \* _spin_wheel: name
    line,              \* the terminal row sys.stdout writes to
    col,               \* the terminal cursor column (0-based)
    erased,            \* how many spaces the last erasure wrote
    written,           \* the last name written to the terminal
    n_names,           \* how many names were written so far
    n_sleeps,          \* how many time.sleep calls were made so far
    n_newlines         \* how many newlines were written so far

genVars == <<files, categories, surname_count, with_middle_name, gender,
             cat_objs, name_objs, surname_objs>>
callVars == <<rand_cat, rand_name_idx, rand_surname_idx, ret>>
fmtVars == <<fullname, fmt, with_middle_initial, out>>
wheelVars == <<x, prev_name_len, name, line, col, erased, written,
               n_names, n_sleeps, n_newlines>>
vars == <<genVars, callVars, fmtVars, wheelVars, pc>>

----------------------------------------------------------------------------
(* Values *)

None == <<"None">>
NoGender == "None"
MALE == "male"
FEMALE == "female"
Gender == {MALE, FEMALE}

STD == "std"
LBL == "lbl"
SN == "sn"
NoCategory == "None"

DEFAULT == "default"
SNAKE == "snake"
KEBAB == "kebab"
CAMEL == "camel"
CAP_CAMEL == "cap-camel"
Format == {DEFAULT, SNAKE, KEBAB, CAMEL, CAP_CAMEL}

\* bool(s) of an optional str: None and '' are falsy
Truthy(s) == s # None /\ s # <<>>

JsonEntry(n, s) == [name |-> n, surname |-> s]

PartialName(n, g) == [name |-> n, gender |-> g]

FullName(n, s, g, m) == [name |-> n, surname |-> s, gender |-> g, middle_name |-> m]

NoFullName == FullName(None, None, NoGender, None)

Returned(v) == [kind |-> "return", value |-> v]
Raised(e) == [kind |-> "raise", value |-> e]
NotCalled == [kind |-> "none", value |-> "none"]

----------------------------------------------------------------------------
(* The record sources *)

\* f'{cat}-m', f'{cat}-f', 'std-names-m', 'std-names-f', 'std-surnames'
FileName(stem, suffix) == <<stem, suffix>>

Present(entries) == [exists |-> TRUE, entries |-> entries]
Absent == [exists |-> FALSE, entries |-> <<>>]

LoadJsonEntries(fs, cat_filename) ==
    IF fs[cat_filename].exists THEN fs[cat_filename].entries ELSE <<>>

----------------------------------------------------------------------------
(* NameGenerator: building the pools *)

\* faulty variant of CatObjsOf: a record is kept as soon as it has a name
CatObjsOf_NameOnly(entries, g) ==
    LET kept == SelectSeq(entries, LAMBDA e : Truthy(e.name))
    IN  [i \in 1..Len(kept) |-> FullName(kept[i].name, kept[i].surname, g, None)]

\* the comprehension of _get_cat_objs over one source
CatObjsOf(entries, g) ==
    LET kept == SelectSeq(entries, LAMBDA e : Truthy(e.name) /\ Truthy(e.surname))
    IN  [i \in 1..Len(kept) |-> FullName(kept[i].name, kept[i].surname, g, None)]

\* faulty variant of GetCatObjs: the gender filter is not consulted
GetCatObjs_Unfiltered(fs, g, cat) ==
    CatObjsOf(LoadJsonEntries(fs, FileName(cat, "m")), MALE)
    \o CatObjsOf(LoadJsonEntries(fs, FileName(cat, "f")), FEMALE)

GetCatObjs(fs, g, cat) ==
    (IF g = NoGender \/ g = MALE
        THEN CatObjsOf(LoadJsonEntries(fs, FileName(cat, "m")), MALE) ELSE <<>>)
    \o
    (IF g = NoGender \/ g = FEMALE
        THEN CatObjsOf(LoadJsonEntries(fs, FileName(cat, "f")), FEMALE) ELSE <<>>)

NameObjsOf(entries, g) ==
    LET kept == SelectSeq(entries, LAMBDA e : Truthy(e.name))
    IN  [i \in 1..Len(kept) |-> PartialName(kept[i].name, g)]

StdNameObjs(fs, g) ==
    (IF g = NoGender \/ g = MALE
        THEN NameObjsOf(LoadJsonEntries(fs, FileName("std-names", "m")), MALE) ELSE <<>>)
    \o
    (IF g = NoGender \/ g = FEMALE
        THEN NameObjsOf(LoadJsonEntries(fs, FileName("std-names", "f")), FEMALE) ELSE <<>>)

StdSurnameObjs(fs) ==
    LET kept == SelectSeq(LoadJsonEntries(fs, FileName("std-surnames", "")),
                          LAMBDA e : Truthy(e.surname))
    IN  [i \in 1..Len(kept) |-> PartialName(kept[i].surname, NoGender)]

CreateCatObjs(fs, g, cats) ==
    [cat \in cats |-> IF cat = STD THEN <<>> ELSE GetCatObjs(fs, g, cat)]

----------------------------------------------------------------------------
(* NameGenerator: sampling *)

\* faulty variant of Sample: k independent draws (random.choices), a position may repeat
Sample_WithReplacement(n, k) == [1..k -> 1..n]

\* random.sample(population, k): k positions of the population, no position twice
Sample(n, k) ==
    {s \in [1..k -> 1..n] : \A i, j \in 1..k : i # j => s[i] # s[j]}

\* '-'.join(texts)
RECURSIVE JoinHyphen(_)
JoinHyphen(texts) ==
    IF Len(texts) = 0 THEN <<>>
    ELSE IF Len(texts) = 1 THEN texts[1]
    ELSE texts[1] \o <<"-">> \o JoinHyphen(Tail(texts))

\* first.gender or Gender.MALE
GenderOr(g) == IF g = NoGender THEN MALE ELSE g

StdFullName(names, surnames, nidx, sidx, wmn) ==
    FullName(names[nidx[1]].name,
             JoinHyphen([i \in 1..Len(sidx) |-> surnames[sidx[i]].name]),
             GenderOr(names[nidx[1]].gender),
             IF wmn THEN names[nidx[2]].name ELSE None)

\* NameGenerator._random_std_full_name: every outcome of one call
RandomStdFullName(names, surnames, sc, wmn) ==
    LET k == IF wmn THEN 2 ELSE 1
    IN  IF k > Len(names)
            \* random.sample raises ValueError: sample larger than population
            THEN {[nidx |-> <<>>, sidx |-> <<>>, ret |-> Raised("ValueError")]}
        ELSE IF sc > Len(surnames)
            THEN {[nidx |-> n, sidx |-> <<>>, ret |-> Raised("ValueError")] :
                    n \in Sample(Len(names), k)}
        ELSE {[nidx |-> n, sidx |-> s,
               ret |-> Returned(StdFullName(names, surnames, n, s, wmn))] :
                    n \in Sample(Len(names), k), s \in Sample(Len(surnames), sc)}

\* faulty variant of RandomCatFullName: an empty list yields an empty result instead of raising
RandomCatFullName_NoRaise(objs) ==
    IF objs = <<>>
        THEN {[nidx |-> <<>>, sidx |-> <<>>, ret |-> Returned(NoFullName)]}
        ELSE {[nidx |-> <<>>, sidx |-> <<>>, ret |-> Returned(objs[i])] : i \in 1..Len(objs)}

\* random.choice(self._cat_objs[rand_cat]): every outcome
RandomCatFullName(objs) ==
    IF objs = <<>>
        \* random.choice raises IndexError on an empty list
        THEN {[nidx |-> <<>>, sidx |-> <<>>, ret |-> Raised("IndexError")]}
        ELSE {[nidx |-> <<>>, sidx |-> <<>>, ret |-> Returned(objs[i])] : i \in 1..Len(objs)}

WithCat(c, outcomes) ==
    {[cat |-> c, nidx |-> o.nidx, sidx |-> o.sidx, ret |-> o.ret] : o \in outcomes}

\* NameGenerator.random_full_name: every outcome of one call
RandomFullNameOutcomes(cobjs, names, surnames, sc, wmn) ==
    IF DOMAIN cobjs = {}
        \* random.choice raises IndexError on the empty list of keys
        THEN {[cat |-> NoCategory, nidx |-> <<>>, sidx |-> <<>>, ret |-> Raised("IndexError")]}
        ELSE UNION {IF c = STD
                        THEN WithCat(c, RandomStdFullName(names, surnames, sc, wmn))
                        ELSE WithCat(c, RandomCatFullName(cobjs[c])) : c \in DOMAIN cobjs}

----------------------------------------------------------------------------
(* Texts and record sources the model draws from *)

Jean == <<"J", "e", "a", "n">>
Luc == <<"L", "u", "c">>
Guy == <<"G", "u", "y">>
Eve == <<"É", "v", "e">>
Lise == <<"L", "i", "s", "e">>
Roy == <<"R", "o", "y">>
Cote == <<"C", "o", "t", "e">>
Ross == <<"R", "o", "s", "s">>

MaleNames == <<Jean, Luc, Guy>>
FemaleNames == <<Eve, Lise>>
Surnames == <<Roy, Cote, Ross>>

TextAt(texts, i) == texts[((i - 1) % Len(texts)) + 1]

\* how many records a std-names source holds at most
MaxNames == 2
\* how many records the std-surnames source holds at most
MaxSurnames == 2
\* how many records a source of another category holds at most
MaxCatEntries == 2

NameRecord(texts, i) == JsonEntry(TextAt(texts, i), None)
SurnameRecord(i) == JsonEntry(None, TextAt(Surnames, i))
CatRecord(texts, i) == JsonEntry(TextAt(texts, i), TextAt(Surnames, i))
NoNameRecord(i) == JsonEntry(None, TextAt(Surnames, i))
NoSurnameRecord(texts, i) == JsonEntry(TextAt(texts, i), None)
EmptyRecord == JsonEntry(None, None)

\* the sources of up to max records whose i-th record is one of Choices(i)
SourcesOf(max, Choices(_)) ==
    UNION {{Present(es) : es \in {s \in [1..n -> UNION {Choices(i) : i \in 1..n}] :
                                    \A i \in 1..n : s[i] \in Choices(i)}} : n \in 0..max}

\* only the first record of a source may lack a field
StdNamesMSources ==
    SourcesOf(MaxNames, LAMBDA i :
        {NameRecord(MaleNames, i)} \cup (IF i = 1 THEN {EmptyRecord} ELSE {}))
StdNamesFSources ==
    SourcesOf(MaxNames, LAMBDA i : {NameRecord(FemaleNames, i)})
StdSurnamesSources ==
    SourcesOf(MaxSurnames, LAMBDA i :
        {SurnameRecord(i)} \cup (IF i = 1 THEN {EmptyRecord} ELSE {}))
CatMSources ==
    {Absent} \cup SourcesOf(MaxCatEntries, LAMBDA i :
        {CatRecord(MaleNames, i)}
        \cup (IF i = 1 THEN {NoNameRecord(i), NoSurnameRecord(MaleNames, i)} ELSE {}))
CatFSources ==
    {Absent} \cup SourcesOf(MaxCatEntries, LAMBDA i : {CatRecord(FemaleNames, i)})

Resource(nm, nf, sn, lm, lf) ==
    (FileName("std-names", "m") :> nm) @@ (FileName("std-names", "f") :> nf) @@
    (FileName("std-surnames", "") :> sn) @@
    (FileName(LBL, "m") :> lm) @@ (FileName(LBL, "f") :> lf) @@
    (FileName(SN, "m") :> Present(<<JsonEntry(Luc, Ross)>>)) @@ (FileName(SN, "f") :> Absent)

DefaultResource ==
    Resource(Present(<<NameRecord(MaleNames, 1), NameRecord(MaleNames, 2)>>),
             Present(<<NameRecord(FemaleNames, 1)>>),
             Present(<<SurnameRecord(1), SurnameRecord(2)>>),
             Present(<<CatRecord(MaleNames, 3)>>),
             Present(<<CatRecord(FemaleNames, 2)>>))

\* the packaged data the model runs on: the std sources vary beside fixed sources of
\* the other categories, or the sources of category lbl vary beside fixed std sources
Resources ==
    {Resource(nm, nf, sn, DefaultResource[FileName(LBL, "m")], DefaultResource[FileName(LBL, "f")]) :
        nm \in StdNamesMSources, nf \in StdNamesFSources, sn \in StdSurnamesSources}
    \cup
    {Resource(DefaultResource[FileName("std-names", "m")], DefaultResource[FileName("std-names", "f")],
              DefaultResource[FileName("std-surnames", "")], lm, lf) :
        lm \in CatMSources, lf \in CatFSources}

Categories == {STD, LBL, SN}

----------------------------------------------------------------------------
(* The generator: NameGenerator(...) and then any number of random_full_name() *)

FmtIdle ==
    /\ fullname = NoFullName /\ fmt = DEFAULT /\ with_middle_initial = TRUE /\ out = NotCalled
WheelIdle ==
    /\ x = 0 /\ prev_name_len = 0 /\ name = <<>> /\ line = <<>> /\ col = 0
    /\ erased = 0 /\ written = <<>> /\ n_names = 0 /\ n_sleeps = 0 /\ n_newlines = 0
CallIdle ==
    /\ rand_cat = NoCategory /\ rand_name_idx = <<>> /\ rand_surname_idx = <<>>
    /\ ret = NotCalled

Init ==
    /\ files \in Resources
    /\ categories \in SUBSET Categories
    /\ surname_count \in {1, 2}
    /\ with_middle_name \in BOOLEAN
    /\ gender \in {NoGender, MALE, FEMALE}
    /\ cat_objs = <<>> /\ name_objs = <<>> /\ surname_objs = <<>>
    /\ pc = "new"
    /\ CallIdle /\ FmtIdle /\ WheelIdle

\* NameGenerator.__init__ -> _create_objs -> _create_std_objs, _get_cat_objs
CreateObjs ==
    /\ pc = "new"
    /\ name_objs' = StdNameObjs(files, gender)
    /\ surname_objs' = StdSurnameObjs(files)
    /\ cat_objs' = CreateCatObjs(files, gender, categories)
    /\ pc' = "ready"
    /\ UNCHANGED <<files, categories, surname_count, with_middle_name, gender,
                   callVars, fmtVars, wheelVars>>

\* NameGenerator.random_full_name
RandomFullName ==
    /\ pc = "ready"
    /\ \E o \in RandomFullNameOutcomes(cat_objs, name_objs, surname_objs,
                                        surname_count, with_middle_name) :
         /\ rand_cat' = o.cat
         /\ rand_name_idx' = o.nidx
         /\ rand_surname_idx' = o.sidx
         /\ ret' = o.ret
    /\ UNCHANGED <<genVars, fmtVars, wheelVars, pc>>

Next == CreateObjs \/ RandomFullName

Spec == Init /\ [][Next]_vars

----------------------------------------------------------------------------
(* Properties of the generator *)

\* C1: a generator built with gender filter MALE or FEMALE never returns a FullName
\* of the other gender, from the std pools or from a pre-formed category list.
C1_GenderFilterRespected ==
    (gender \in Gender /\ ret.kind = "return") => ret.value.gender = gender

\* a FEMALE-filtered generator returned a name of category lbl whose male source
\* holds usable records
C1_Witness ==
    /\ gender = FEMALE /\ ret.kind = "return" /\ rand_cat = LBL
    /\ \E i \in DOMAIN LoadJsonEntries(files, FileName(LBL, "m")) :
           LoadJsonEntries(files, FileName(LBL, "m"))[i] = CatRecord(MaleNames, i)

\* the first-name pool cannot serve 1 + with_middle_name entries
TooFewNames == Len(name_objs) < (IF with_middle_name THEN 2 ELSE 1)
TooFewSurnames == Len(surname_objs) < surname_count

\* C6 as stated: random_full_name fails exactly when the chosen category is std and a
\* std pool is too small, or the chosen category is not std and its list is empty; in
\* every other case it returns a FullName.
C6_FailsExactlyOnShortPools ==
    ret.kind # "none" =>
        (ret.kind = "raise" <=>
            \/ rand_cat = STD /\ (TooFewNames \/ TooFewSurnames)
            \/ rand_cat \notin {STD, NoCategory} /\ cat_objs[rand_cat] = <<>>)

\* C6 amended: random_full_name also fails when the generator was built over an empty
\* set of categories (no category can be chosen); it fails in exactly these three
\* cases and returns a FullName in every other.
C6_FailsExactlyOnShortPoolsOrNoCategory ==
    ret.kind # "none" =>
        /\ (ret.kind = "raise" <=>
                \/ categories = {}
                \/ rand_cat = STD /\ (TooFewNames \/ TooFewSurnames)
                \/ rand_cat \notin {STD, NoCategory} /\ cat_objs[rand_cat] = <<>>)
        /\ ret.kind = "return" =>
                /\ ret.value.name # None /\ ret.value.surname # None
                /\ ret.value.gender \in Gender

\* a middle name was asked of a first-name pool of one entry, and the call failed
C6_Witness ==
    /\ ret.kind = "raise" /\ rand_cat = STD
    /\ with_middle_name /\ Len(name_objs) = 1 /\ ~TooFewSurnames

Distinct(s) == \A i, j \in DOMAIN s : i # j => s[i] # s[j]

\* C7: in every returned standard name the given name and the middle name come from
\* two different entries of the first-name pool, the surname fragments come from
\* different entries of the surname pool, the gender is the first drawn first-name
\* entry's and the middle name is the second drawn entry's text.
C7_DistinctDraws ==
    (ret.kind = "return" /\ rand_cat = STD) =>
        /\ Len(rand_name_idx) = (IF with_middle_name THEN 2 ELSE 1)
        /\ Len(rand_surname_idx) = surname_count
        /\ Distinct(rand_name_idx) /\ Distinct(rand_surname_idx)
        /\ \A i \in DOMAIN rand_name_idx : rand_name_idx[i] \in DOMAIN name_objs
        /\ \A i \in DOMAIN rand_surname_idx : rand_surname_idx[i] \in DOMAIN surname_objs
        /\ ret.value.name = name_objs[rand_name_idx[1]].name
        /\ ret.value.gender = name_objs[rand_name_idx[1]].gender
        /\ ret.value.middle_name =
              (IF with_middle_name THEN name_objs[rand_name_idx[2]].name ELSE None)
        /\ ret.value.surname =
              (IF surname_count = 1 THEN surname_objs[rand_surname_idx[1]].name
               ELSE surname_objs[rand_surname_idx[1]].name \o <<"-">>
                    \o surname_objs[rand_surname_idx[2]].name)

\* a standard name with a middle name and a double surname was returned
C7_Witness ==
    /\ ret.kind = "return" /\ rand_cat = STD
    /\ with_middle_name /\ surname_count = 2
    /\ ret.value.middle_name # None

\* the record has both a name and a surname
HasBoth(e) == e.name # None /\ e.surname # None
\* how many of the first i records have both
RankIn(entries, i) == Cardinality({j \in 1..i : HasBoth(entries[j])})
\* what '{cat}-m' / '{cat}-f' contributes under the gender filter
LoadedFor(cat, g, suffix) ==
    IF (gender = NoGender \/ gender = g) /\ files[FileName(cat, suffix)].exists
        THEN files[FileName(cat, suffix)].entries ELSE <<>>

\* C10: once built, and after any number of random_full_name calls, the pool of every
\* requested category other than std holds exactly one FullName per loaded record that
\* has both a name and a surname, MALE for '{cat}-m' and FEMALE for '{cat}-f', only the
\* sources the gender filter allows being loaded; records missing a field and absent
\* sources contribute nothing and raise nothing.
C10_CategoryPools ==
    pc = "ready" =>
        /\ DOMAIN cat_objs = categories
        /\ \A cat \in categories \ {STD} :
             LET m == LoadedFor(cat, MALE, "m")
                 f == LoadedFor(cat, FEMALE, "f")
                 nm == RankIn(m, Len(m))
                 nf == RankIn(f, Len(f))
                 objs == cat_objs[cat]
             IN  /\ Len(objs) = nm + nf
                 /\ \A i \in DOMAIN m : HasBoth(m[i]) =>
                       objs[RankIn(m, i)] = FullName(m[i].name, m[i].surname, MALE, None)
                 /\ \A i \in DOMAIN f : HasBoth(f[i]) =>
                       objs[nm + RankIn(f, i)] = FullName(f[i].name, f[i].surname, FEMALE, None)

\* after a call, the lbl pool was built from a male source that lost a record and a
\* female source that is absent
C10_Witness ==
    /\ pc = "ready" /\ ret.kind = "return" /\ LBL \in categories /\ gender = NoGender
    /\ files[FileName(LBL, "m")].exists
    /\ Len(cat_objs[LBL]) = 1
    /\ Len(files[FileName(LBL, "m")].entries) = 2
    /\ ~files[FileName(LBL, "f")].exists

----------------------------------------------------------------------------
(* Characters *)

UpperLetters ==
    <<"A", "B", "C", "D", "E", "F", "G", "H", "I", "J", "K", "L", "M",
      "N", "O", "P", "Q", "R", "S", "T", "U", "V", "W", "X", "Y", "Z">>
LowerLetters ==
    <<"a", "b", "c", "d", "e", "f", "g", "h", "i", "j", "k", "l", "m",
      "n", "o", "p", "q", "r", "s", "t", "u", "v", "w", "x", "y", "z">>
Digits == {"0", "1", "2", "3", "4", "5", "6", "7", "8", "9"}

\* the non-ASCII letters of the model, with their lowercase forms and what NFKD
\* followed by encode('ascii', 'ignore') leaves of each: the base letter of a letter
\* with a diacritic, nothing of a letter without a decomposition
AccentedUpper == <<"É", "Ô", "Ø">>
AccentedLower == <<"é", "ô", "ø">>
AsciiOfUpper == <<<<"E">>, <<"O">>, <<>>>>
AsciiOfLower == <<<<"e">>, <<"o">>, <<>>>>

Range(f) == {f[i] : i \in DOMAIN f}
IndexOf(f, c) == CHOOSE i \in DOMAIN f : f[i] = c

\* str.lower() of one character
CharLower(c) ==
    IF c \in Range(UpperLetters) THEN LowerLetters[IndexOf(UpperLetters, c)]
    ELSE IF c \in Range(AccentedUpper) THEN AccentedLower[IndexOf(AccentedUpper, c)]
    ELSE c

\* str.upper() of one character
CharUpper(c) ==
    IF c \in Range(LowerLetters) THEN UpperLetters[IndexOf(LowerLetters, c)]
    ELSE IF c \in Range(AccentedLower) THEN AccentedUpper[IndexOf(AccentedLower, c)]
    ELSE c

\* str.isalnum() of one character
IsAlnum(c) ==
    c \in Range(UpperLetters) \cup Range(LowerLetters) \cup Digits
          \cup Range(AccentedUpper) \cup Range(AccentedLower)

\* _strip_diacritics of one character
StripChar(c) ==
    IF c \in Range(AccentedUpper) THEN AsciiOfUpper[IndexOf(AccentedUpper, c)]
    ELSE IF c \in Range(AccentedLower) THEN AsciiOfLower[IndexOf(AccentedLower, c)]
    ELSE <<c>>

RECURSIVE StripDiacritics(_)
StripDiacritics(s) ==
    IF s = <<>> THEN <<>> ELSE StripChar(Head(s)) \o StripDiacritics(Tail(s))

StrLower(s) == [i \in DOMAIN s |-> CharLower(s[i])]

----------------------------------------------------------------------------
(* format_name *)

\* the loop of _normalize_name: sep is '' or one character
RECURSIVE ReplaceNonAlnum(_, _)
ReplaceNonAlnum(s, sep) ==
    IF s = <<>> THEN <<>>
    ELSE (IF IsAlnum(Head(s)) \/ Head(s) = "_" THEN <<Head(s)>> ELSE sep)
         \o ReplaceNonAlnum(Tail(s), sep)

\* faulty variant of NormalizeName: the name is never lowercased
NormalizeName_NoLower(s, sep, lower) ==
    ReplaceNonAlnum(StripDiacritics(s), sep)

NormalizeName(s, sep, lower) ==
    LET stripped == StripDiacritics(s)
    IN  ReplaceNonAlnum(IF lower THEN StrLower(stripped) ELSE stripped, sep)

\* faulty variant of MiddleInitial: the first character is returned as it is
MiddleInitial_NoUpper(fn) ==
    IF fn.middle_name = None THEN Raised("ValueError")
    ELSE IF fn.middle_name = <<>> THEN Raised("IndexError")
    ELSE Returned(<<fn.middle_name[1]>>)

\* FullName.middle_initial
MiddleInitial(fn) ==
    IF fn.middle_name = None THEN Raised("ValueError")
    \* ''[0] raises IndexError
    ELSE IF fn.middle_name = <<>> THEN Raised("IndexError")
    ELSE Returned(<<CharUpper(fn.middle_name[1])>>)

\* faulty variant of MiddlePart: the period is appended in every format
MiddlePart_AlwaysPeriod(fn, f, wmi) ==
    IF Truthy(fn.middle_name)
        THEN IF wmi
                THEN IF MiddleInitial(fn).kind = "raise" THEN MiddleInitial(fn)
                     ELSE Returned(<<MiddleInitial(fn).value \o <<".">> >>)
                ELSE Returned(<<fn.middle_name>>)
        ELSE Returned(<<>>)

\* format_name: the parts the middle name adds, or what reading middle_initial raised
MiddlePart(fn, f, wmi) ==
    IF Truthy(fn.middle_name)
        THEN IF wmi
                THEN IF MiddleInitial(fn).kind = "raise" THEN MiddleInitial(fn)
                     ELSE Returned(<<MiddleInitial(fn).value
                                     \o (IF f = DEFAULT THEN <<".">> ELSE <<>>)>>)
                ELSE Returned(<<fn.middle_name>>)
        ELSE Returned(<<>>)

\* ' '.join(parts)
RECURSIVE JoinSpace(_)
JoinSpace(parts) ==
    IF Len(parts) = 0 THEN <<>>
    ELSE IF Len(parts) = 1 THEN parts[1]
    ELSE parts[1] \o <<" ">> \o JoinSpace(Tail(parts))

\* faulty variant of LowerFirst: the first character is left as it is
LowerFirst_Unchanged(s) == s

\* s[0].lower() + s[1:] if s else s
LowerFirst(s) == IF s = <<>> THEN s ELSE <<CharLower(s[1])>> \o Tail(s)

Parts(fn, middle) ==
    (IF Truthy(fn.name) THEN <<fn.name>> ELSE <<>>)
    \o middle
    \o (IF Truthy(fn.surname) THEN <<fn.surname>> ELSE <<>>)

FormatName(fn, f, wmi) ==
    LET middle == MiddlePart(fn, f, wmi)
    IN  IF middle.kind = "raise" THEN middle
        ELSE LET raw_name == JoinSpace(Parts(fn, middle.value))
             IN  Returned(CASE f = DEFAULT -> raw_name
                            [] f = SNAKE -> NormalizeName(raw_name, <<"_">>, TRUE)
                            [] f = KEBAB -> NormalizeName(raw_name, <<"-">>, TRUE)
                            [] f = CAMEL -> LowerFirst(NormalizeName(raw_name, <<>>, FALSE))
                            [] f = CAP_CAMEL -> NormalizeName(raw_name, <<>>, FALSE))

----------------------------------------------------------------------------
(* The formatter: one FullName, then format_name(...) or a read of middle_initial *)

Alphabet == {"J", "e", "É", "3", "_", "-", "ø"}

\* how many characters a given name has at most
MaxNameLen == 2

Words(max) == UNION {[1..n -> Alphabet] : n \in 1..max}

GivenNames == {<<>>} \cup Words(MaxNameLen)
SurnameTexts == {<<>>, <<"R", "-", "e">>, <<"É">>, <<"_">>, <<"3">>, <<"ø">>}
MiddleNames == {None, <<>>, <<"é", "J">>, <<"e">>, <<"_">>, <<"3">>, <<"ø">>, <<"-">>}

GenIdle ==
    /\ files = DefaultResource /\ categories = {STD} /\ surname_count = 1
    /\ with_middle_name = FALSE /\ gender = NoGender
    /\ cat_objs = <<>> /\ name_objs = <<>> /\ surname_objs = <<>>

InitFormat ==
    /\ fullname \in {FullName(n, s, MALE, m) :
                        n \in GivenNames, s \in SurnameTexts, m \in MiddleNames}
    /\ fmt = DEFAULT /\ with_middle_initial = TRUE /\ out = NotCalled
    /\ pc = "fullname"
    /\ GenIdle /\ CallIdle /\ WheelIdle

\* format_name(fullname, fmt, with_middle_initial)
CallFormatName ==
    /\ pc = "fullname"
    /\ \E f \in Format, wmi \in BOOLEAN :
         /\ fmt' = f
         /\ with_middle_initial' = wmi
         /\ out' = FormatName(fullname, f, wmi)
    /\ pc' = "formatted"
    /\ UNCHANGED <<fullname, genVars, callVars, wheelVars>>

\* fullname.middle_initial
ReadMiddleInitial ==
    /\ pc = "fullname"
    /\ out' = MiddleInitial(fullname)
    /\ pc' = "initial_read"
    /\ UNCHANGED <<fullname, fmt, with_middle_initial, genVars, callVars, wheelVars>>

NextFormat == CallFormatName \/ ReadMiddleInitial

SpecFormat == InitFormat /\ [][NextFormat]_vars

----------------------------------------------------------------------------
(* Properties of the formatter *)

ReLower == Range(LowerLetters)
ReUpper == Range(UpperLetters)
ReAlnum == ReLower \cup ReUpper \cup Digits

\* the regular expressions of the claims
MatchesCamel(s) == Len(s) >= 1 /\ s[1] \in ReLower /\ \A i \in 2..Len(s) : s[i] \in ReAlnum
MatchesCapCamel(s) == Len(s) >= 1 /\ s[1] \in ReUpper /\ \A i \in 2..Len(s) : s[i] \in ReAlnum
MatchesSnake(s) == Len(s) >= 1 /\ \A i \in DOMAIN s : s[i] \in ReLower \cup Digits \cup {"_"}
MatchesKebab(s) == Len(s) >= 1 /\ \A i \in DOMAIN s : s[i] \in ReLower \cup Digits \cup {"-"}
MatchesKebabOrUnderscore(s) ==
    Len(s) >= 1 /\ \A i \in DOMAIN s : s[i] \in ReLower \cup Digits \cup {"-", "_"}

\* format_name was called on a FullName with a non-empty given name and surname
FormattedNamed == pc = "formatted" /\ Truthy(fullname.name) /\ Truthy(fullname.surname)
HasMiddle == Truthy(fullname.middle_name)
NoUnderscore ==
    /\ "_" \notin Range(fullname.name) \cup Range(fullname.surname)
    /\ HasMiddle => "_" \notin Range(fullname.middle_name)
\* the given name starts with a letter of `letters`, or with one whose base letter is
StartsWith(letters) ==
    StripChar(fullname.name[1]) # <<>> /\ StripChar(fullname.name[1])[1] \in letters

\* C2 as stated: for every FullName with a non-empty given name and surname the CAMEL
\* output matches [a-z][a-zA-Z0-9]* and the CAP_CAMEL output matches [A-Z][a-zA-Z0-9]*.
C2_CamelPatterns ==
    FormattedNamed =>
        /\ fmt = CAMEL => out.kind = "return" /\ MatchesCamel(out.value)
        /\ fmt = CAP_CAMEL => out.kind = "return" /\ MatchesCapCamel(out.value)

\* C2 amended: the CAMEL and CAP_CAMEL outputs hold only characters of [a-zA-Z0-9_]
\* and the CAMEL output does not start with an uppercase letter; when no part of the
\* name holds an underscore and the given name starts with a letter (ASCII, or with an
\* ASCII base letter; an uppercase one for CAP_CAMEL), the CAMEL output matches
\* [a-z][a-zA-Z0-9]* and the CAP_CAMEL output matches [A-Z][a-zA-Z0-9]*.
C2_CamelPatternsOfLetterNames ==
    (FormattedNamed /\ fmt \in {CAMEL, CAP_CAMEL}) =>
        /\ out.kind = "return"
        /\ \A i \in DOMAIN out.value : out.value[i] \in ReAlnum \cup {"_"}
        /\ (fmt = CAMEL /\ out.value # <<>>) => out.value[1] \notin ReUpper
        /\ (fmt = CAMEL /\ NoUnderscore /\ StartsWith(ReLower \cup ReUpper))
                => MatchesCamel(out.value)
        /\ (fmt = CAP_CAMEL /\ NoUnderscore /\ StartsWith(ReUpper))
                => MatchesCapCamel(out.value)

\* an accented capital, a hyphen and a middle initial were formatted in CAMEL
C2_Witness ==
    /\ FormattedNamed /\ fmt = CAMEL /\ with_middle_initial
    /\ fullname.name = <<"É", "-">> /\ fullname.middle_name = <<"e">>
    /\ fullname.surname = <<"R", "-", "e">>
    /\ out = Returned(<<"e", "E", "R", "e">>)

\* the result holds a separator character
HasSeparator(s, sep) == sep \in Range(s)

\* C3 as stated: for every FullName with a non-empty given name and surname the SNAKE
\* output matches [a-z0-9_]+ and the KEBAB output matches [a-z0-9-]+, and holds a
\* separator when two or more parts were joined.
C3_SnakeKebabPatterns ==
    FormattedNamed =>
        /\ fmt = SNAKE => /\ out.kind = "return" /\ MatchesSnake(out.value)
                          /\ HasSeparator(out.value, "_")
        /\ fmt = KEBAB => /\ out.kind = "return" /\ MatchesKebab(out.value)
                          /\ HasSeparator(out.value, "-")

\* C3 amended: the SNAKE output matches [a-z0-9_]+; the KEBAB output matches
\* [a-z0-9_-]+ (an underscore of the name is kept), and [a-z0-9-]+ when no part of the
\* name holds an underscore; both hold a separator when two or more parts were joined.
C3_SnakeKebabKeepUnderscore ==
    FormattedNamed =>
        /\ fmt = SNAKE => /\ out.kind = "return" /\ MatchesSnake(out.value)
                          /\ HasSeparator(out.value, "_")
        /\ fmt = KEBAB => /\ out.kind = "return" /\ MatchesKebabOrUnderscore(out.value)
                          /\ NoUnderscore => MatchesKebab(out.value)
                          /\ HasSeparator(out.value, "-")

\* a name with an accented capital and a letter without ASCII form went through KEBAB
C3_Witness ==
    /\ FormattedNamed /\ fmt = KEBAB /\ ~with_middle_initial
    /\ fullname.name = <<"É", "ø">> /\ fullname.middle_name = <<"é", "J">>
    /\ fullname.surname = <<"R", "-", "e">>
    /\ out = Returned(<<"e", "-", "e", "j", "-", "r", "-", "e">>)

\* the middle part of the claim, with the space that follows it
C4_Middle ==
    IF ~HasMiddle THEN <<>>
    ELSE IF with_middle_initial THEN <<CharUpper(fullname.middle_name[1]), ".", " ">>
    ELSE fullname.middle_name \o <<" ">>

\* C4: the DEFAULT output is the given name, the middle part when there is a middle
\* name, and the surname, joined by single spaces and otherwise unchanged; the middle
\* part is the uppercased first character and a period with with_middle_initial, the
\* whole middle name without; in the other formats the initial comes without a period.
C4_DefaultFormat ==
    FormattedNamed =>
        /\ fmt = DEFAULT =>
              out = Returned(fullname.name \o <<" ">> \o C4_Middle \o fullname.surname)
        /\ (fmt \in {SNAKE, KEBAB} /\ HasMiddle /\ with_middle_initial) =>
              /\ out.kind = "return"
              /\ Len(out.value) = Len(StripDiacritics(fullname.name)) + 1
                                  + Len(StripChar(CharUpper(fullname.middle_name[1]))) + 1
                                  + Len(StripDiacritics(fullname.surname))
        /\ (fmt # DEFAULT /\ HasMiddle /\ with_middle_initial) =>
              out.kind = "return" /\ "." \notin Range(out.value)

\* a name with a two-letter middle name was formatted in DEFAULT with its initial
C4_Witness ==
    /\ FormattedNamed /\ fmt = DEFAULT /\ with_middle_initial
    /\ fullname.middle_name = <<"é", "J">>
    /\ fullname.name = <<"J", "e">> /\ fullname.surname = <<"R", "-", "e">>
    /\ out = Returned(<<"J", "e", " ", "É", ".", " ", "R", "-", "e">>)

\* C5: reading middle_initial returns the uppercased first character of middle_name
\* when there is one and raises when middle_name is absent; format_name never raises,
\* whatever the FullName, the format and with_middle_initial.
C5_MiddleInitial ==
    /\ pc = "initial_read" =>
          /\ fullname.middle_name = None => out.kind = "raise"
          /\ HasMiddle => out = Returned(<<CharUpper(fullname.middle_name[1])>>)
    /\ pc = "formatted" => out.kind = "return"

\* the initial of a lowercase accented middle name was read
C5_Witness ==
    /\ pc = "initial_read" /\ fullname.middle_name = <<"é", "J">>
    /\ out = Returned(<<"É">>)

----------------------------------------------------------------------------
(* _spin_wheel *)

\* x += 0.02 and x <= 1.05, in hundredths.  The floats of the code carry a rounding
\* error far below 0.01 and 1.05 is no multiple of 0.02, so the comparison comes out
\* as in exact arithmetic.
XStep == 2
XLimit == 105

\* faulty variant of NextX: x advances by 0.01
NextX_HalfStep(xv) == xv + 1

NextX(xv) == xv + XStep

\* faulty variant of KeepsSpinning: the wheel sleeps after every name
KeepsSpinning_Always(xv) == TRUE

\* if x <= 1.05
KeepsSpinning(xv) == xv <= XLimit

\* ' ' * n
Blank(n) == [i \in 1..n |-> " "]

\* sys.stdout.write(s) on a terminal row: s overwrites the row from the cursor on
WriteAt(row, c, s) ==
    [i \in 1..(IF c + Len(s) > Len(row) THEN c + Len(s) ELSE Len(row)) |->
        IF i > c /\ i <= c + Len(s) THEN s[i - c] ELSE row[i]]

\* what a terminal row shows: its characters up to the last one that is no blank
RECURSIVE Visible(_)
Visible(row) ==
    IF row = <<>> THEN <<>>
    ELSE IF row[Len(row)] = " " THEN Visible(SubSeq(row, 1, Len(row) - 1))
    ELSE row

\* a generator as NameGenerator(sc, wmn, g, cats) builds it over the default data
Built(sc, wmn, g, cats) ==
    /\ files = DefaultResource /\ categories = cats /\ surname_count = sc
    /\ with_middle_name = wmn /\ gender = g
    /\ name_objs = StdNameObjs(DefaultResource, g)
    /\ surname_objs = StdSurnameObjs(DefaultResource)
    /\ cat_objs = CreateCatObjs(DefaultResource, g, cats)

InitWheel ==
    /\ \/ Built(1, FALSE, MALE, {STD})
       \/ Built(2, TRUE, MALE, {STD, LBL})
       \/ Built(1, TRUE, FEMALE, {STD})
    /\ fmt \in {DEFAULT, KEBAB}
    /\ with_middle_initial \in BOOLEAN
    /\ fullname = NoFullName /\ out = NotCalled
    /\ pc = "generate"
    /\ CallIdle /\ WheelIdle

\* format_name(generator.random_full_name(), fmt, middle_initial): every outcome, with
\* the FullName in between
GeneratedNames ==
    {[fullname |-> IF o.ret.kind = "raise" THEN fullname ELSE o.ret.value,
      out |-> IF o.ret.kind = "raise" THEN o.ret
              ELSE FormatName(o.ret.value, fmt, with_middle_initial)] :
        o \in RandomFullNameOutcomes(cat_objs, name_objs, surname_objs,
                                     surname_count, with_middle_name)}

\* name = format_name(generator.random_full_name(), fmt, middle_initial)
Generate ==
    /\ pc = "generate"
    /\ \E g \in GeneratedNames :
         /\ fullname' = g.fullname
         /\ out' = g.out
         /\ IF g.out.kind = "raise"
               THEN pc' = "raised" /\ UNCHANGED name
               ELSE pc' = "erase" /\ name' = g.out.value
    /\ UNCHANGED <<genVars, callVars, fmt, with_middle_initial, x, prev_name_len,
                   line, col, erased, written, n_names, n_sleeps, n_newlines>>

\* write('\r'); write(' ' * prev_name_len); write('\r')
Erase ==
    /\ pc = "erase"
    /\ line' = WriteAt(line, 0, Blank(prev_name_len))
    /\ erased' = Len(Blank(prev_name_len))
    /\ col' = 0
    /\ pc' = "write"
    /\ UNCHANGED <<genVars, callVars, fmtVars, x, prev_name_len, name, written,
                   n_names, n_sleeps, n_newlines>>

\* prev_name_len = len(name); write(name); flush(); dur = x**10 + 0.05; x += 0.02
\* (dur is only ever the argument of time.sleep and is left out)
WriteName ==
    /\ pc = "write"
    /\ prev_name_len' = Len(name)
    /\ line' = WriteAt(line, col, name)
    /\ col' = col + Len(name)
    /\ written' = name
    /\ n_names' = n_names + 1
    /\ x' = NextX(x)
    /\ pc' = "check"
    /\ UNCHANGED <<genVars, callVars, fmtVars, name, erased, n_sleeps, n_newlines>>

\* if x <= 1.05: time.sleep(dur)
Sleep ==
    /\ pc = "check"
    /\ KeepsSpinning(x)
    /\ n_sleeps' = n_sleeps + 1
    /\ pc' = "sleeping"
    /\ UNCHANGED <<genVars, callVars, fmtVars, x, prev_name_len, name, line, col,
                   erased, written, n_names, n_newlines>>

\* time.sleep returns and the loop goes round
WakeUp ==
    /\ pc = "sleeping"
    /\ pc' = "generate"
    /\ UNCHANGED <<genVars, callVars, fmtVars, wheelVars>>

\* else: break
Break ==
    /\ pc = "check"
    /\ ~KeepsSpinning(x)
    /\ pc' = "newline"
    /\ UNCHANGED <<genVars, callVars, fmtVars, wheelVars>>

\* print(): the cursor leaves the row, which stays as it is
PrintNewline ==
    /\ pc = "newline"
    /\ n_newlines' = n_newlines + 1
    /\ col' = 0
    /\ pc' = "done"
    /\ UNCHANGED <<genVars, callVars, fmtVars, x, prev_name_len, name, line,
                   erased, written, n_names, n_sleeps>>

NextWheel ==
    Generate \/ Erase \/ WriteName \/ Sleep \/ WakeUp \/ Break \/ PrintNewline

SpecWheel == InitWheel /\ [][NextWheel]_vars

----------------------------------------------------------------------------
(* Properties of the wheel *)

\* how far the loop has come: the names written, then the place in the iteration
WheelRank ==
    8 * n_names + (CASE pc = "check" -> 0 [] pc = "sleeping" -> 1 [] pc = "generate" -> 2
                     [] pc = "erase" -> 3 [] pc = "write" -> 4 [] pc = "newline" -> 5
                     [] pc = "done" -> 6 [] pc = "raised" -> 7)

\* C8: the wheel loop ends, having generated at most 53 names, and when it has ended
\* the terminal row shows the last name that was generated.  Ending is stated as a
\* bounded measure of progress: every step of the loop raises WheelRank, which cannot
\* pass 8 * 53 + 7, and only the states "done" and "raised" have no next step.
C8_WheelTerminates ==
    /\ [](n_names <= 53)
    /\ [](pc = "done" => /\ n_names >= 1
                         /\ written = name
                         /\ Visible(line) = name)
    /\ [][WheelRank' > WheelRank]_vars

\* the loop ended after 53 names with a name on the row
C8_Witness ==
    /\ pc = "done" /\ n_names = 53 /\ name # <<>> /\ Visible(line) = name

\* C9: every written name but the last is followed by exactly one sleep before the
\* next name is generated; a sleep happens only while x <= 1.05; no sleep follows the
\* last name; exactly one newline is written, after the last name; before a name is
\* written the row is overwritten with as many spaces as the previous name is long.
C9_WheelCadence ==
    /\ pc \in {"generate", "erase", "write"} => n_sleeps = n_names
    /\ pc \in {"check", "newline", "done"} => n_sleeps = n_names - 1
    /\ pc = "sleeping" => n_sleeps = n_names /\ x <= XLimit
    /\ pc \in {"newline", "done"} => x > XLimit
    /\ n_newlines = (IF pc = "done" THEN 1 ELSE 0)
    /\ pc = "write" => /\ erased = Len(written)
                       /\ Visible(line) = <<>>
                       /\ col = 0

\* a longer name was erased and a shorter one is about to be written
C9_Witness ==
    /\ pc = "write" /\ n_names >= 2 /\ erased = Len(written)
    /\ Len(name) < Len(written)

====
